---------------------------- MODULE Spec2Model ----------------------------
(***************************************************************************)
(* Model of the dashboard.tabs extension-point handler                     *)
(* (dashboardTab.contribution, src/unnamed/part_000) and of the MRU /      *)
(* active-tab bookkeeping of PanelComponent (panel.component.ts).          *)
(*                                                                         *)
(* JavaScript values of scalar fields are written as the text of their     *)
(* literal: "undefined", "true", "false", "''", "'Tasks'", "42".           *)
(***************************************************************************)
EXTENDS Integers, Sequences, FiniteSets, TLC

\* ------------------------------------------------------------------ bounds

\* longest array of tab records one extension contributes
MaxTabs == 2
\* number of TabComponents of the panel
NumTabs == 3

\* ------------------------------------------------------------- JS helpers

Undefined == "undefined"

\* JS truthiness of a scalar: `!v` holds for undefined, null, '', false, 0
Falsy(v) == v \in {"undefined", "null", "''", "false", "0"}

\* vs/base/common/types isBoolean: strict boolean type check
isBoolean(v) == v \in {"true", "false"}

\* the container of a record: absent, or an object with its entries in key order
UndefinedContainer == [defined |-> FALSE, entries |-> <<>>]

Container(entries) == [defined |-> TRUE, entries |-> entries]

\* Object.keys(container)
ObjectKeys(container) ==
    [k \in 1..Len(container.entries) |-> container.entries[k].key]

\* values(container)
values(container) ==
    [k \in 1..Len(container.entries) |-> container.entries[k].value]

\* ---------------------------------------------------------- collaborators

WIDGETS_CONTAINER == "widgets-container"
GRID_CONTAINER == "grid-container"
NAV_SECTION == "nav-section"
KnownContainers == {WIDGETS_CONTAINER, GRID_CONTAINER, NAV_SECTION}

\* Constants.mssqlProviderName
mssqlProviderName == "'MSSQL'"

\* A kind-specific container validator: a verdict on the container value, and an
\* error on the extension's collector when it rejects.
ValidateContainer(kind, value) == value = "wellFormed"

ValidatorDiagnostics(kind, value) ==
    IF ValidateContainer(kind, value)
    THEN <<>>
    ELSE << [severity |-> "error", message |-> "invalidContainerValue"] >>

\* isValidIcon: a string path or a light/dark pair is valid; an absent icon is
\* not; any other shape is reported and is not.
isValidIcon(icon) == icon \in {"'a.svg'", "{light,dark}"}

IconDiagnostics(icon) ==
    IF isValidIcon(icon) \/ icon = Undefined
    THEN <<>>
    ELSE << [severity |-> "error", message |-> "invalidIcon"] >>

\* createCSSRuleForIcon: an opaque class token scoped to the extension
createCSSRuleForIcon(icon, publisher) == <<"iconClass", publisher, icon>>

NoIconClass == <<>>

\* ------------------------------------------------------------------ state

VARIABLES
    pc,               \* "load", "idle", "handler", "done"
    extensions,       \* the argument of the handler: Seq of [publisher, value]
    e,                \* index of the extension of the outer for loop
    i,                \* index of the record within extensions[e].value
    registerTabCalls, \* calls of registerTab, in call order
    tabGroupCalls,    \* calls of registerTabGroup, in call order
    collector,        \* extension.collector.error / warn calls, in call order
    validatorCalls,   \* calls of the container validators
    iconCalls,        \* calls of isValidIcon and createCSSRuleForIcon
    tabIdentifier,    \* PanelComponent: TabComponent.identifier of each tab
    tabActive,        \* PanelComponent: TabComponent.active of each tab
    activeTab,        \* PanelComponent._activeTab (0: undefined)
    mru,              \* PanelComponent._mru
    idPool,           \* panel.component.ts idPool
    lastOp            \* the last PanelComponent call and its argument

dashboardVars == <<pc, extensions, e, i, registerTabCalls, tabGroupCalls,
                   collector, validatorCalls, iconCalls>>

panelVars == <<tabIdentifier, tabActive, activeTab, mru, idPool, lastOp>>

vars == <<pc, extensions, e, i, registerTabCalls, tabGroupCalls, collector,
          validatorCalls, iconCalls, tabIdentifier, tabActive, activeTab, mru,
          idPool, lastOp>>

\* ------------------------------------------------------- handleTab, by block

\* mutant: the default is given only when alwaysShow is absent
AlwaysShowDefaultOnlyIfAbsent(alwaysShow) ==
    IF alwaysShow = Undefined THEN "true" ELSE alwaysShow

\* lines 114-117: alwaysShow defaults to true unless it is a boolean
AlwaysShowOrDefault(alwaysShow) ==
    IF ~isBoolean(alwaysShow) THEN "true" ELSE alwaysShow

\* mutant: the title check is missing
StructuralErrorNoTitleCheck(tab) ==
    IF ~tab.container.defined THEN "noContainerError"
    ELSE IF Len(ObjectKeys(tab.container)) # 1 THEN "moreThanOneDashboardContainersError"
    ELSE "none"

\* lines 119-143: the error that ends the record's processing, or "none".
\* The checks run in the order title, container, key count.
StructuralError(tab) ==
    IF Falsy(tab.title) THEN "noTitleError"
    ELSE IF ~tab.container.defined THEN "noContainerError"
    ELSE IF Len(ObjectKeys(tab.container)) # 1 THEN "moreThanOneDashboardContainersError"
    ELSE "none"

\* mutant: the missing description is reported with collector.error
DescriptionWarningsAsErrors(tab) ==
    IF ~Falsy(tab.title) /\ Falsy(tab.description)
    THEN << [severity |-> "error", message |-> "noDescriptionWarning"] >>
    ELSE <<>>

\* lines 124-126: a missing description is a warning, given once the title passed
DescriptionWarnings(tab) ==
    IF ~Falsy(tab.title) /\ Falsy(tab.description)
    THEN << [severity |-> "warn", message |-> "noDescriptionWarning"] >>
    ELSE <<>>

\* mutant: the default provider overwrites the given one
ProviderAlwaysDefault(provider) == mssqlProviderName

\* lines 133-135
ProviderOrDefault(provider) ==
    IF Falsy(provider) THEN mssqlProviderName ELSE provider

\* mutant: line 137 is missing
IsHomeTabKept(provider, isHomeTab) == isHomeTab

\* lines 133-138: not a home tab when no provider was given
IsHomeTabFor(provider, isHomeTab) ==
    IF Falsy(provider) THEN "false" ELSE isHomeTab

\* lines 149-159: whether the switch dispatches to a validator
Dispatches(containerkey) == containerkey \in KnownContainers

\* mutant: result starts false, so a kind without a case is refused
ContainerResultRejectsUnknown(containerkey, containerValue) ==
    IF Dispatches(containerkey)
    THEN ValidateContainer(containerkey, containerValue)
    ELSE FALSE

\* lines 145-159: result starts true and is the validator's verdict on dispatch
ContainerResult(containerkey, containerValue) ==
    IF Dispatches(containerkey)
    THEN ValidateContainer(containerkey, containerValue)
    ELSE TRUE

\* lines 161-164: whether createCSSRuleForIcon is called
CreatesIconRule(icon) == isValidIcon(icon)

\* lines 161-164
IconClassFor(icon, publisher) ==
    IF CreatesIconRule(icon) THEN createCSSRuleForIcon(icon, publisher) ELSE NoIconClass

\* mutant: registerTab is called whatever the validator said
RegistersAlways(result, icon) == TRUE

\* mutant: an icon isValidIcon refuses blocks the registration
RegistersOnlyWithIcon(result, icon) == result /\ isValidIcon(icon)

\* line 166: the final gate before registerTab
Registers(result, icon) == result

\* line 167: the record handed to registerTab
RegisteredTab(tab, publisher) ==
    [description |-> tab.description,
     title       |-> tab.title,
     container   |-> tab.container,
     provider    |-> ProviderOrDefault(tab.provider),
     when        |-> tab.when,
     id          |-> tab.id,
     alwaysShow  |-> AlwaysShowOrDefault(tab.alwaysShow),
     publisher   |-> publisher,
     isHomeTab   |-> IsHomeTabFor(tab.provider, tab.isHomeTab),
     group       |-> tab.group,
     iconClass   |-> IconClassFor(tab.icon, publisher)]

\* lines 111-169: everything one handleTab call does, as the calls it makes
handleTab(tab, publisher) ==
    LET err == StructuralError(tab)
        containerkey == ObjectKeys(tab.container)[1]
        containerValue == values(tab.container)[1]
        result == ContainerResult(containerkey, containerValue)
    IN  IF err # "none"
        THEN [diagnostics |-> DescriptionWarnings(tab)
                              \o << [severity |-> "error", message |-> err] >>,
              validators  |-> <<>>,
              icons       |-> <<>>,
              registered  |-> <<>>]
        ELSE [diagnostics |-> DescriptionWarnings(tab)
                              \o (IF Dispatches(containerkey)
                                  THEN ValidatorDiagnostics(containerkey, containerValue)
                                  ELSE <<>>)
                              \o IconDiagnostics(tab.icon),
              validators  |-> IF Dispatches(containerkey)
                              THEN << [kind |-> containerkey, value |-> containerValue,
                                       result |-> result] >>
                              ELSE <<>>,
              icons       |-> << [fn |-> "isValidIcon", icon |-> tab.icon,
                                       result |-> IF isValidIcon(tab.icon)
                                                  THEN <<"true">> ELSE <<"false">>] >>
                              \o (IF CreatesIconRule(tab.icon)
                                  THEN << [fn |-> "createCSSRuleForIcon", icon |-> tab.icon,
                                           result |-> createCSSRuleForIcon(tab.icon, publisher)] >>
                                  ELSE <<>>),
              registered  |-> IF Registers(result, tab.icon)
                              THEN << RegisteredTab(tab, publisher) >>
                              ELSE <<>>]


\* ------------------------------------------------------- module-level state

\* lines 183-203
TabGroups ==
    << [id |-> "administration",  title |-> "Administration"],
       [id |-> "monitoring",      title |-> "Monitoring"],
       [id |-> "performance",     title |-> "Performance"],
       [id |-> "security",        title |-> "Security"],
       [id |-> "troubleshooting", title |-> "Troubleshooting"],
       [id |-> "settings",        title |-> "Settings"] >>

\* mutant: the loop stops before the last group
RECURSIVE forEachButLast(_, _, _)
forEachButLast(groups, k, calls) ==
    IF k >= Len(groups)
    THEN calls
    ELSE forEachButLast(groups, k + 1, Append(calls, groups[k]))

\* line 205: TabGroups.forEach(tabGroup => registerTabGroup(tabGroup)), from
\* element k on
RECURSIVE forEachRegisterTabGroup(_, _, _)
forEachRegisterTabGroup(groups, k, calls) ==
    IF k > Len(groups)
    THEN calls
    ELSE forEachRegisterTabGroup(groups, k + 1, Append(calls, groups[k]))

\* ------------------------------------------------------------------ inputs

Publishers == {"contoso", "fabrikam"}

ContainerValues == {"wellFormed", "malformed"}

\* the container mappings a record may carry: none, no key, one key of a known
\* or of another kind, two keys
Containers ==
    {UndefinedContainer, Container(<<>>)}
    \cup {Container(<< [key |-> k, value |-> v] >>) :
            k \in KnownContainers \cup {"webview-container"}, v \in ContainerValues}
    \cup {Container(<< [key |-> WIDGETS_CONTAINER, value |-> "wellFormed"],
                       [key |-> GRID_CONTAINER, value |-> "wellFormed"] >>)}

\* every record of the per-record check
Tabs ==
    [id          : {"'tab1'"},
     title       : {Undefined, "''", "'Tasks'"},
     description : {Undefined, "'Shows tasks'"},
     container   : Containers,
     provider    : {Undefined, "''", "'PGSQL'"},
     when        : {Undefined},
     alwaysShow  : {Undefined, "true", "false", "'yes'"},
     isHomeTab   : {Undefined, "true", "false"},
     group       : {Undefined},
     icon        : {Undefined, "'a.svg'", "{light,dark}", "42"}]

\* the records of the batch check: one per outcome of the structural checks and
\* of the dispatch, the other fields fixed
BatchTabs ==
    {t \in Tabs :
        /\ t.description = "'Shows tasks'"
        /\ t.provider = "'PGSQL'"
        /\ t.alwaysShow = Undefined
        /\ t.isHomeTab = Undefined
        /\ t.icon = Undefined
        /\ \/ /\ t.title = "'Tasks'"
              /\ t.container \in
                   {UndefinedContainer,
                    Container(<< [key |-> WIDGETS_CONTAINER, value |-> "wellFormed"] >>),
                    Container(<< [key |-> GRID_CONTAINER, value |-> "malformed"] >>),
                    Container(<< [key |-> "webview-container", value |-> "wellFormed"] >>),
                    Container(<< [key |-> WIDGETS_CONTAINER, value |-> "wellFormed"],
                                 [key |-> GRID_CONTAINER, value |-> "wellFormed"] >>)}
           \/ /\ t.title = Undefined
              /\ t.container =
                   Container(<< [key |-> WIDGETS_CONTAINER, value |-> "wellFormed"] >>)}

\* sequences over S of length at most n
SeqsUpTo(S, n) == UNION {[1..m -> S] : m \in 0..n}

\* extension.value: one record, or an array of records
ValuesOver(T, n) ==
    {[isArray |-> FALSE, tabs |-> <<t>>] : t \in T}
    \cup {[isArray |-> TRUE, tabs |-> a] : a \in SeqsUpTo(T, n)}

\* the extensions argument: distinct extensions, each with its value
ExtensionsOver(V) ==
    {x \in SeqsUpTo([publisher : Publishers, value : V], Cardinality(Publishers)) :
        \A m, n \in 1..Len(x) : m # n => x[m].publisher # x[n].publisher}

\* the extensions argument with one extension and one record, given as the
\* value itself or as an array of one
OneRecordExtensions ==
    {<< [publisher |-> p, value |-> [isArray |-> a, tabs |-> <<t>>]] >> :
        p \in Publishers, a \in BOOLEAN, t \in Tabs}

\* ------------------------------------------------------------ the for loop

\* the records of extension x, as the loop of lines 172-179 visits them
RecordsOf(x) == x.value.tabs

\* first extension from index k on that has a record to handle
RECURSIVE FirstWithRecords(_, _)
FirstWithRecords(exts, k) ==
    IF k > Len(exts) \/ Len(RecordsOf(exts[k])) > 0
    THEN k
    ELSE FirstWithRecords(exts, k + 1)

\* tags each call with the place <<e, i>> of the record it was made for
At(calls, ei) == [k \in 1..Len(calls) |-> [at |-> ei, call |-> calls[k]]]

\* ----------------------------------------------------------------- actions

\* module load: line 109 sets the handler, line 205 registers the groups
ModuleLoad ==
    /\ pc = "load"
    /\ pc' = "idle"
    /\ tabGroupCalls' = forEachRegisterTabGroup(TabGroups, 1, tabGroupCalls)
    /\ UNCHANGED <<extensions, e, i, registerTabCalls, collector, validatorCalls,
                   iconCalls>>
    /\ UNCHANGED panelVars

\* the host calls the handler with the extensions of domain D; the outer loop
\* of line 171 starts
InvokeHandler(D) ==
    /\ pc = "idle"
    /\ \E exts \in D :
         /\ extensions' = exts
         /\ e' = FirstWithRecords(exts, 1)
         /\ i' = 1
         /\ pc' = IF FirstWithRecords(exts, 1) > Len(exts) THEN "done" ELSE "handler"
    /\ UNCHANGED <<registerTabCalls, tabGroupCalls, collector, validatorCalls,
                   iconCalls>>
    /\ UNCHANGED panelVars

\* one handleTab call for the record at <<e, i>>, and the loops' advance
HandleRecord ==
    LET extension == extensions[e]
        out == handleTab(RecordsOf(extension)[i], extension.publisher)
        last == i = Len(RecordsOf(extension))
        nextE == IF last THEN FirstWithRecords(extensions, e + 1) ELSE e
    IN  /\ registerTabCalls' = registerTabCalls \o At(out.registered, <<e, i>>)
        /\ collector' = collector
              \o At([k \in 1..Len(out.diagnostics) |->
                       [collector |-> extension.publisher,
                        severity  |-> out.diagnostics[k].severity,
                        message   |-> out.diagnostics[k].message]], <<e, i>>)
        /\ validatorCalls' = validatorCalls \o At(out.validators, <<e, i>>)
        /\ iconCalls' = iconCalls \o At(out.icons, <<e, i>>)
        /\ e' = nextE
        /\ i' = IF last THEN 1 ELSE i + 1
        /\ pc' = IF nextE > Len(extensions) THEN "done" ELSE "handler"
        /\ UNCHANGED <<extensions, tabGroupCalls>>
        /\ UNCHANGED panelVars

\* lines 173-176: value is an array, handleTab(command, extension) per element
HandleArrayElement ==
    /\ pc = "handler"
    /\ extensions[e].value.isArray
    /\ HandleRecord

\* lines 177-179: value is one record, handleTab(value, extension)
HandleSingleValue ==
    /\ pc = "handler"
    /\ ~extensions[e].value.isArray
    /\ HandleRecord

InitDashboard ==
    /\ pc = "load"
    /\ extensions = <<>>
    /\ e = 1
    /\ i = 1
    /\ registerTabCalls = <<>>
    /\ tabGroupCalls = <<>>
    /\ collector = <<>>
    /\ validatorCalls = <<>>
    /\ iconCalls = <<>>

\* ---------------------------------------------------------- PanelComponent

\* the TabComponents of _tabs, in template order; 0 stands for undefined
TabIds == 1..NumTabs

NoTab == 0

\* identifiers are written as tuples: <<>> is an unset identifier,
\* <<"tabIndex_", n>> is 'tabIndex_' + n
NoIdentifier == <<>>

GivenIdentifiers == {<<"home">>, <<"tabIndex_", 0>>}

TabIndexIdentifier(n) == <<"tabIndex_", n>>

\* firstIndex(array, i => i === x), as an index from 0, -1 when absent
RECURSIVE firstIndexFrom(_, _, _)
firstIndexFrom(array, x, k) ==
    IF k > Len(array) THEN -1
    ELSE IF array[k] = x THEN k - 1
    ELSE firstIndexFrom(array, x, k + 1)

firstIndex(array, x) == firstIndexFrom(array, x, 1)

\* array.splice(index, 1), index from 0
splice1(array, index) ==
    [k \in 1..(Len(array) - 1) |-> IF k <= index THEN array[k] ELSE array[k + 1]]

\* lines 244-251
findAndRemoveTabFromMRU(list, tab) ==
    LET mruIndex == firstIndex(list, tab)
    IN  IF mruIndex # -1 THEN splice1(list, mruIndex) ELSE list

\* lines 253-258: remove, then unshift
setMostRecentlyUsed(list, tab) ==
    <<tab>> \o findAndRemoveTabFromMRU(list, tab)

\* lines 199-203: every tab without an identifier gets 'tabIndex_' + idPool++,
\* in template order, from tab k on
RECURSIVE assignIdentifiers(_, _, _)
assignIdentifiers(ids, pool, k) ==
    IF k > NumTabs THEN [ids |-> ids, pool |-> pool]
    ELSE IF ids[k] = NoIdentifier
    THEN assignIdentifiers([ids EXCEPT ![k] = TabIndexIdentifier(pool)], pool + 1, k + 1)
    ELSE assignIdentifiers(ids, pool, k + 1)

\* the component's state as a record, for the nested calls
PanelState ==
    [tabIdentifier |-> tabIdentifier, tabActive |-> tabActive,
     activeTab |-> activeTab, mru |-> mru, idPool |-> idPool]

\* lines 210-220: the previous tab is deactivated, the tab becomes _activeTab,
\* goes to the front of the MRU list and is activated
activate(S, tab) ==
    LET off == IF S.activeTab # NoTab
               THEN [S.tabActive EXCEPT ![S.activeTab] = FALSE]
               ELSE S.tabActive
    IN  [S EXCEPT !.tabActive = [off EXCEPT ![tab] = TRUE],
                  !.activeTab = tab,
                  !.mru = setMostRecentlyUsed(S.mru, tab)]

\* lines 196-221: selectTab once the tab is found (NoTab: not found)
selectFound(S, foundTab) ==
    IF foundTab = NoTab THEN S
    ELSE LET a == assignIdentifiers(S.tabIdentifier, S.idPool, 1)
             S1 == [S EXCEPT !.tabIdentifier = a.ids, !.idPool = a.pool]
         IN  IF S1.activeTab # NoTab /\ foundTab = S1.activeTab
             THEN S1
             ELSE activate(S1, foundTab)

\* line 191: this._tabs.toArray()[input]
tabAtIndex(input) == IF input >= 0 /\ input < NumTabs THEN input + 1 ELSE NoTab

\* line 193: this._tabs.find(i => i.identifier === input)
tabWithIdentifier(S, input) ==
    IF \E t \in TabIds : S.tabIdentifier[t] = input
    THEN CHOOSE t \in TabIds :
            /\ S.tabIdentifier[t] = input
            /\ \A u \in TabIds : S.tabIdentifier[u] = input => t <= u
    ELSE NoTab

\* lines 235-242
selectOnNextTab(S) ==
    LET activeIndex == firstIndex([t \in TabIds |-> t], S.activeTab)
        nextTabIndex == IF activeIndex + 1 = NumTabs THEN 0 ELSE activeIndex + 1
    IN  selectFound(S, tabAtIndex(nextTabIndex))

\* mutant: the most recent tab is not opened after the removal
closeTabWithoutSelect(S, tab) ==
    [S EXCEPT !.mru = findAndRemoveTabFromMRU(S.mru, tab)]

\* lines 264-274
closeTab(S, tab) ==
    LET S1 == [S EXCEPT !.mru = findAndRemoveTabFromMRU(S.mru, tab)]
    IN  IF Len(S1.mru) > 0 THEN selectFound(S1, S1.mru[1]) ELSE S1

\* the state after a call, and the call as lastOp (was: _activeTab before it)
Becomes(S, op) ==
    /\ tabIdentifier' = S.tabIdentifier
    /\ tabActive' = S.tabActive
    /\ activeTab' = S.activeTab
    /\ mru' = S.mru
    /\ idPool' = S.idPool
    /\ lastOp' = [op |-> op.op, tab |-> op.tab, was |-> activeTab]
    /\ UNCHANGED dashboardVars

\* selectTab(tab: TabComponent)
SelectTabByTab ==
    /\ NumTabs > 0
    /\ \E t \in TabIds :
        Becomes(selectFound(PanelState, t), [op |-> "selectTab", tab |-> t])

\* selectTab(index: number)
SelectTabByIndex ==
    /\ NumTabs > 0
    /\ \E n \in 0..NumTabs :
        Becomes(selectFound(PanelState, tabAtIndex(n)),
                [op |-> "selectTabIndex", tab |-> tabAtIndex(n)])

\* selectTab(identifier: string)
SelectTabByIdentifier ==
    /\ NumTabs > 0
    /\ \E s \in GivenIdentifiers \cup {TabIndexIdentifier(n) : n \in 0..NumTabs}
                \cup {<<"unknown">>} :
        Becomes(selectFound(PanelState, tabWithIdentifier(PanelState, s)),
                [op |-> "selectTabIdentifier", tab |-> tabWithIdentifier(PanelState, s)])

SelectOnNextTab ==
    /\ NumTabs > 0
    /\ Becomes(selectOnNextTab(PanelState), [op |-> "selectOnNextTab", tab |-> NoTab])

CloseTab ==
    /\ NumTabs > 0
    /\ \E t \in TabIds :
        Becomes(closeTab(PanelState, t), [op |-> "closeTab", tab |-> t])

\* after construction: no active tab, an empty MRU list; each tab's identifier
\* is given by the template or unset
InitPanel ==
    /\ tabIdentifier \in [TabIds -> GivenIdentifiers \cup {NoIdentifier}]
    /\ tabActive = [t \in TabIds |-> FALSE]
    /\ activeTab = NoTab
    /\ mru = <<>>
    /\ idPool = 0
    /\ lastOp = [op |-> "constructor", tab |-> NoTab, was |-> NoTab]

\* the panel before any tab is given an identifier
PanelUnused ==
    /\ tabIdentifier = [t \in TabIds |-> NoIdentifier]
    /\ tabActive = [t \in TabIds |-> FALSE]
    /\ activeTab = NoTab
    /\ mru = <<>>
    /\ idPool = 0
    /\ lastOp = [op |-> "constructor", tab |-> NoTab, was |-> NoTab]

\* --------------------------------------------------------- specifications

\* one handler call over a batch of extensions
Init == InitDashboard /\ PanelUnused

Next ==
    \/ ModuleLoad
    \/ InvokeHandler(ExtensionsOver(ValuesOver(BatchTabs, MaxTabs)))
    \/ HandleArrayElement
    \/ HandleSingleValue

Spec == Init /\ [][Next]_vars

\* one handler call with one record, over every record of Tabs
NextTab ==
    \/ ModuleLoad
    \/ InvokeHandler(OneRecordExtensions)
    \/ HandleArrayElement
    \/ HandleSingleValue

SpecTab == Init /\ [][NextTab]_vars

\* the panel's calls, in any order
NextPanel ==
    \/ SelectTabByTab
    \/ SelectTabByIndex
    \/ SelectTabByIdentifier
    \/ SelectOnNextTab
    \/ CloseTab

InitPanelSpec == InitDashboard /\ InitPanel

SpecPanel == InitPanelSpec /\ [][NextPanel]_vars

\* ------------------------------------------- vocabulary of the properties

\* the places <<extension, record>> of the records of the batch
Places ==
    UNION {{<<x, y>> : y \in 1..Len(RecordsOf(extensions[x]))} :
             x \in 1..Len(extensions)}

InputAt(at) == RecordsOf(extensions[at[1]])[at[2]]

Before(a, b) == a[1] < b[1] \/ (a[1] = b[1] /\ a[2] < b[2])

\* the records handleTab has returned from
Handled ==
    {at \in Places : pc = "done" \/ (pc = "handler" /\ Before(at, <<e, i>>))}

\* the indices of the calls of a log made for the record at a place
CallsAt(log, at) == {k \in 1..Len(log) : log[k].at = at}

ErrorsAt(at) ==
    {k \in CallsAt(collector, at) : collector[k].call.severity = "error"}

\* missing title, missing container, or a container whose key count is not 1
StructurallyInvalid(tab) ==
    \/ Falsy(tab.title)
    \/ ~tab.container.defined
    \/ Len(tab.container.entries) # 1

\* a validator was called for the record and returned false
RejectedAt(at) ==
    \E k \in CallsAt(validatorCalls, at) : ~validatorCalls[k].call.result

\* a validator was called for the record and returned true
AcceptedAt(at) ==
    \E k \in CallsAt(validatorCalls, at) : validatorCalls[k].call.result

\* the three diagnostics handleTab itself gives for a structural defect
StructuralMessages ==
    {"noTitleError", "noContainerError", "moreThanOneDashboardContainersError"}

\* each structurally invalid handled record has exactly one error diagnostic,
\* a structural one, on the collector of its own extension
FailuresReported ==
    \A at \in Handled :
        StructurallyInvalid(InputAt(at)) =>
            /\ Cardinality(ErrorsAt(at)) = 1
            /\ \A k \in ErrorsAt(at) :
                 /\ collector[k].call.message \in StructuralMessages
                 /\ collector[k].call.collector = extensions[at[1]].publisher

\* the registerTab calls are made in the order of the input, each for a
\* structurally valid handled record, none twice, with the record's title and
\* id and the publisher of its extension
RegisteredInInputOrder ==
    /\ \A k \in 1..Len(registerTabCalls) :
         LET at == registerTabCalls[k].at
         IN  /\ at \in Handled
             /\ ~StructurallyInvalid(InputAt(at))
             /\ registerTabCalls[k].call.title = InputAt(at).title
             /\ registerTabCalls[k].call.id = InputAt(at).id
             /\ registerTabCalls[k].call.publisher = extensions[at[1]].publisher
    /\ \A k, m \in 1..Len(registerTabCalls) :
         k < m => Before(registerTabCalls[k].at, registerTabCalls[m].at)

InvalidHandled == {at \in Handled : StructurallyInvalid(InputAt(at))}

RejectedHandled == {at \in Handled : RejectedAt(at)}

\* ---------------------------------------------------------------- claims

\* C1 as stated: once the batch of N records is handled, exactly N-K
\* registerTab calls were made, K the number of structurally invalid records;
\* every such failure has its diagnostic; the calls are in input order.
C1_AsStated ==
    pc = "done" =>
        /\ Len(registerTabCalls) = Cardinality(Handled) - Cardinality(InvalidHandled)
        /\ FailuresReported
        /\ RegisteredInInputOrder

\* C1, amended: of the N records handled so far, K structurally invalid and R
\* structurally valid but refused by their container validator, exactly N-K-R
\* were handed to registerTab, in input order, and each of the K failures has
\* exactly one error diagnostic on its extension's collector.
C1_BatchAccounting ==
    /\ Len(registerTabCalls) =
         Cardinality(Handled) - Cardinality(InvalidHandled) - Cardinality(RejectedHandled)
    /\ InvalidHandled \cap RejectedHandled = {}
    /\ FailuresReported
    /\ RegisteredInInputOrder

\* C1 witness: a finished batch with a registered record after an invalid one
\* and a second registered record after that, from two extensions
C1_Witness ==
    /\ pc = "done"
    /\ Len(extensions) = 2
    /\ Len(registerTabCalls) >= 2
    /\ InvalidHandled # {}
    /\ RejectedHandled # {}
    /\ \E at \in InvalidHandled :
         /\ Before(registerTabCalls[1].at, at)
         /\ Before(at, registerTabCalls[Len(registerTabCalls)].at)

\* C2 as stated: every registered record had exactly one container key and a
\* kind-specific validator returned success for it.
C2_AsStated ==
    \A k \in 1..Len(registerTabCalls) :
        LET at == registerTabCalls[k].at
        IN  /\ InputAt(at).container.defined
            /\ Len(InputAt(at).container.entries) = 1
            /\ AcceptedAt(at)

\* C2, amended: every registered record had exactly one container key, and
\* when that key is one of the three known kinds, that kind's validator was
\* called with the container's value and returned success, and none returned
\* failure; for any other key no validator was called.
C2_RegisteredOnlyIfAccepted ==
    \A k \in 1..Len(registerTabCalls) :
        LET at == registerTabCalls[k].at
            c == InputAt(at).container
        IN  /\ c.defined
            /\ Len(c.entries) = 1
            /\ registerTabCalls[k].call.container = c
            /\ ~RejectedAt(at)
            /\ c.entries[1].key \in {WIDGETS_CONTAINER, GRID_CONTAINER, NAV_SECTION} =>
                 \E v \in CallsAt(validatorCalls, at) :
                     /\ validatorCalls[v].call.kind = c.entries[1].key
                     /\ validatorCalls[v].call.value = c.entries[1].value
                     /\ validatorCalls[v].call.result
            /\ c.entries[1].key \notin {WIDGETS_CONTAINER, GRID_CONTAINER, NAV_SECTION} =>
                 CallsAt(validatorCalls, at) = {}

\* C2 witness: a nav-section record was registered on its validator's verdict
C2_Witness ==
    \E k \in 1..Len(registerTabCalls) :
        /\ InputAt(registerTabCalls[k].at).container.entries[1].key = NAV_SECTION
        /\ AcceptedAt(registerTabCalls[k].at)

\* C3: a handled record that misses its title or its container, or whose
\* container has 0 or 2+ keys, whatever its other fields, has no registerTab
\* call, no validator call, no icon call, and exactly one error diagnostic.
C3_InvalidRecordDropped ==
    \A at \in Handled :
        StructurallyInvalid(InputAt(at)) =>
            /\ CallsAt(registerTabCalls, at) = {}
            /\ CallsAt(validatorCalls, at) = {}
            /\ CallsAt(iconCalls, at) = {}
            /\ Cardinality(ErrorsAt(at)) = 1

\* C3 witness: a handled record with several defects at once (no title, no
\* description, two container keys) and a valid icon
C3_Witness ==
    \E at \in Handled :
        /\ InputAt(at).title = Undefined
        /\ InputAt(at).description = Undefined
        /\ Len(InputAt(at).container.entries) = 2
        /\ InputAt(at).icon = "'a.svg'"
        /\ Cardinality(ErrorsAt(at)) = 1

\* C4: a registered record whose input gave no provider carries the default
\* provider name and isHomeTab false, whatever isHomeTab the input carried.
C4_ProviderDefaulted ==
    \A k \in 1..Len(registerTabCalls) :
        Falsy(InputAt(registerTabCalls[k].at).provider) =>
            /\ registerTabCalls[k].call.provider = mssqlProviderName
            /\ registerTabCalls[k].call.isHomeTab = "false"

\* C4 witness: a record with no provider and isHomeTab true was registered
C4_Witness ==
    \E k \in 1..Len(registerTabCalls) :
        /\ InputAt(registerTabCalls[k].at).provider = Undefined
        /\ InputAt(registerTabCalls[k].at).isHomeTab = "true"

\* a record that passes the structural checks and is not refused by a validator
ValidAt(at) == ~StructurallyInvalid(InputAt(at)) /\ ~RejectedAt(at)

\* C5 as stated: a handled valid record with a provider is registered exactly
\* once, with its provider and its isHomeTab unchanged, and with isHomeTab
\* false when the input omitted isHomeTab.
C5_AsStated ==
    \A at \in Handled :
        (ValidAt(at) /\ ~Falsy(InputAt(at).provider)) =>
            /\ Cardinality(CallsAt(registerTabCalls, at)) = 1
            /\ \A k \in CallsAt(registerTabCalls, at) :
                 /\ registerTabCalls[k].call.provider = InputAt(at).provider
                 /\ registerTabCalls[k].call.isHomeTab =
                      IF InputAt(at).isHomeTab = Undefined
                      THEN "false" ELSE InputAt(at).isHomeTab

\* C5, amended: a handled valid record with a provider is registered exactly
\* once, with its provider and its isHomeTab as the input gave them: isHomeTab
\* stays absent (undefined) when the input omitted it.
C5_ProviderKept ==
    \A at \in Handled :
        (ValidAt(at) /\ ~Falsy(InputAt(at).provider)) =>
            /\ Cardinality(CallsAt(registerTabCalls, at)) = 1
            /\ \A k \in CallsAt(registerTabCalls, at) :
                 /\ registerTabCalls[k].call.provider = InputAt(at).provider
                 /\ registerTabCalls[k].call.isHomeTab = InputAt(at).isHomeTab

\* C5 witness: a record with a provider and isHomeTab true was registered
C5_Witness ==
    \E k \in 1..Len(registerTabCalls) :
        /\ InputAt(registerTabCalls[k].at).provider = "'PGSQL'"
        /\ InputAt(registerTabCalls[k].at).isHomeTab = "true"
        /\ registerTabCalls[k].call.isHomeTab = "true"

\* C6: a registered record's alwaysShow is true when the input's was absent or
\* not a boolean, and is the input's value, false included, when it was one.
C6_AlwaysShow ==
    \A k \in 1..Len(registerTabCalls) :
        LET given == InputAt(registerTabCalls[k].at).alwaysShow
        IN  /\ given \notin {"true", "false"} =>
                 registerTabCalls[k].call.alwaysShow = "true"
            /\ given \in {"true", "false"} =>
                 registerTabCalls[k].call.alwaysShow = given

\* C6 witness: a record with a non-boolean alwaysShow was registered
C6_Witness ==
    \E k \in 1..Len(registerTabCalls) :
        InputAt(registerTabCalls[k].at).alwaysShow = "'yes'"

\* the verdicts isValidIcon gave for the record at a place
IconVerdictsAt(at) ==
    {iconCalls[k].call.result :
        k \in {c \in CallsAt(iconCalls, at) : iconCalls[c].call.fn = "isValidIcon"}}

CreateCallsAt(at) ==
    {k \in CallsAt(iconCalls, at) : iconCalls[k].call.fn = "createCSSRuleForIcon"}

\* C7: a handled record that is otherwise valid is registered exactly once
\* whatever isValidIcon said of its icon; its iconClass is the token
\* createCSSRuleForIcon returned when isValidIcon returned true and is absent
\* when it returned false; createCSSRuleForIcon is called only for an icon
\* isValidIcon accepted.
C7_IconNeverBlocks ==
    /\ \A at \in Handled :
         ValidAt(at) =>
            /\ Cardinality(IconVerdictsAt(at)) = 1
            /\ Cardinality(CallsAt(registerTabCalls, at)) = 1
            /\ \A k \in CallsAt(registerTabCalls, at) :
                 IF IconVerdictsAt(at) = {<<"true">>}
                 THEN /\ Cardinality(CreateCallsAt(at)) = 1
                      /\ \A c \in CreateCallsAt(at) :
                           /\ iconCalls[c].call.icon = InputAt(at).icon
                           /\ registerTabCalls[k].call.iconClass = iconCalls[c].call.result
                 ELSE registerTabCalls[k].call.iconClass = NoIconClass
    /\ \A at \in Handled :
         CreateCallsAt(at) # {} => IconVerdictsAt(at) = {<<"true">>}

\* C7 witness: a record whose icon isValidIcon refused was registered
C7_Witness ==
    \E k \in 1..Len(registerTabCalls) :
        /\ InputAt(registerTabCalls[k].at).icon = "42"
        /\ IconVerdictsAt(registerTabCalls[k].at) = {<<"false">>}

\* C8: once the module is loaded, and from then on whatever the handler does,
\* registerTabGroup has been called exactly 6 times, for administration,
\* monitoring, performance, security, troubleshooting and settings in this
\* order; before the load it has not been called.
C8_TabGroupsRegisteredOnce ==
    /\ pc = "load" => tabGroupCalls = <<>>
    /\ pc # "load" =>
         /\ Len(tabGroupCalls) = 6
         /\ [k \in 1..Len(tabGroupCalls) |-> tabGroupCalls[k].id] =
              <<"administration", "monitoring", "performance", "security",
                "troubleshooting", "settings">>

\* C8 witness: the handler has run a batch and registered a tab
C8_Witness ==
    /\ pc = "done"
    /\ Len(registerTabCalls) > 0
    /\ Len(tabGroupCalls) = 6

\* C9: a handled record with a title and a container whose single key is not
\* a known kind has no validator call, no error diagnostic about its
\* container, and exactly one registerTab call.
C9_UnknownKindAccepted ==
    \A at \in Handled :
        (/\ ~Falsy(InputAt(at).title)
         /\ InputAt(at).container.defined
         /\ Len(InputAt(at).container.entries) = 1
         /\ InputAt(at).container.entries[1].key
               \notin {WIDGETS_CONTAINER, GRID_CONTAINER, NAV_SECTION}) =>
            /\ CallsAt(validatorCalls, at) = {}
            /\ \A k \in ErrorsAt(at) : collector[k].call.message = "invalidIcon"
            /\ Cardinality(CallsAt(registerTabCalls, at)) = 1

\* C9 witness: a webview-container record with a value no validator would
\* accept was registered
C9_Witness ==
    \E k \in 1..Len(registerTabCalls) :
        /\ InputAt(registerTabCalls[k].at).container.entries[1].key = "webview-container"
        /\ InputAt(registerTabCalls[k].at).container.entries[1].value = "malformed"

\* the entries of the MRU list other than tab, most recent first
RECURSIVE without(_, _)
without(list, tab) ==
    IF list = <<>> THEN <<>>
    ELSE IF Head(list) = tab THEN without(Tail(list), tab)
    ELSE <<Head(list)>> \o without(Tail(list), tab)

PanelInvariant ==
    /\ \A t \in TabIds : tabActive[t] => t = activeTab
    /\ Cardinality({t \in TabIds : tabActive[t]}) <= 1
    /\ \A k, m \in 1..Len(mru) : k # m => mru[k] # mru[m]
    /\ mru # <<>> => Head(mru) = activeTab

\* closing the active tab while another tab is in the MRU list makes the most
\* recently selected of the others the active tab
CloseActivatesMostRecent ==
    (/\ lastOp'.op = "closeTab"
     /\ lastOp'.tab = activeTab
     /\ without(mru, activeTab) # <<>>) =>
        /\ activeTab' = Head(without(mru, activeTab))
        /\ tabActive'[activeTab']
        /\ ~tabActive'[activeTab]
        /\ mru' = without(mru, activeTab)

\* the MRU list is the tabs in the order in which they last became the active
\* tab, without those closed since: a call changes it only by dropping the
\* tab it closes and by moving the tab it activates to the front
MruTracksActivation ==
    LET kept == IF lastOp'.op = "closeTab" THEN without(mru, lastOp'.tab) ELSE mru
    IN  mru' = IF activeTab' # activeTab
               THEN <<activeTab'>> \o without(kept, activeTab')
               ELSE kept

==========================================================================
